---------------------------- MODULE Spec2Model ----------------------------
(***************************************************************************)
(* The IrToy serial driver of src/irtoy.py as a state machine.             *)
(*                                                                         *)
(* One driver object talks to one duplex byte channel (self.toy).  Every   *)
(* channel call of the code (toy.write, toy.read, toy.flushOutput) is one  *)
(* step; the channel is the environment: a write returns the full count or *)
(* a short count, or raises; a read returns exactly the bytes asked for,   *)
(* or raises.  The pending work of the running public operation is the     *)
(* sequence stk of steps still to execute; each method body of the source  *)
(* is the sequence of steps it performs.  _sleep() and logging change no   *)
(* state and are left out.                                                 *)
(***************************************************************************)
EXTENDS Integers, Sequences, FiniteSets, TLC

VARIABLES
  pc,              \* "idle" (between calls), "run" (inside a call), "done" (call ended)
  constructed,     \* an IrToy object exists
  op,              \* the public operation in progress
  stk,             \* steps the running call still has to execute
  transmitMode,    \* self.transmitMode
  handshake,       \* self.handshake      (None = -1)
  byteCount,       \* self.byteCount      (None = -1)
  complete,        \* self.complete       (None = -1)
  protocolVersion, \* self.protocolVersion (unset = <<>>)
  code,            \* transmit's argument: the caller's list object
  code0,           \* the value of that list when transmit was called
  irCode,          \* receive's local irCode
  readCount,       \* receive's local readCount
  idx,             \* _writeList's loop variable
  bytesWritten,    \* _writeList's local bytesWritten
  hsPending,       \* _writeList wrote a chunk and has yet to read its handshake byte
  vers,            \* the values firmware_revision() returned during this call
  caught,          \* the exception transmit's except clause caught (NoExc if none)
  outcome,         \* how the call ended: NoExc (returned) or the exception raised
  log,             \* the channel calls of the current call, in order
  lastModeCmd,     \* the last mode command the channel accepted in full
  pre,             \* the driver's fields when the call started
  kept,            \* the list object the caller passed to the transmit just ended:
                   \* <<its value before that call, its value now, the data written>>
  again            \* the transmit in progress was passed that same list object

vars == <<pc, constructed, op, stk, transmitMode, handshake, byteCount, complete,
          protocolVersion, code, code0, irCode, readCount, idx, bytesWritten,
          hsPending, vers, caught, outcome, log, lastModeCmd, pre, kept, again>>

---------------------------------------------------------------------------
(* Bounds of the model. *)

\* receive() reads at most this many signal bytes before the channel goes silent.
MaxRecv == 5
\* transmit() is called with every list over CodeBytes of at most this length ...
MaxShortLen == 4
\* ... and with lists that fill up to this many 32-byte chunks.
MaxChunks == 3

---------------------------------------------------------------------------
(* Program constants. *)

requiredVersion == 22
maxWriteSize == 32
CmdHandshake == 38      \* 0x26
CmdNotify == 37         \* 0x25
CmdTransmit == 3        \* 0x03
ChS == 83               \* 'S'
ChV == 118              \* 'v'
ChI == 73               \* 'I'
ChR == 82               \* 'R'
FlagLower == 99         \* 'c'
FlagUpper == 67         \* 'C'
Sentinel == 255         \* 0xff
ResetLen == 5
None == -1

\* a reset of four zero bytes
ZerosShort == [i \in 1..ResetLen - 1 |-> 0]

\* [0x00, 0x00, 0x00, 0x00, 0x00]
Zeros == [i \in 1..ResetLen |-> 0]

---------------------------------------------------------------------------
(* What the channel can answer. *)

HandshakeBytes == {62}
ProtoResponses == {<<83, 48, 49>>}
\* tag, hardware digit, two firmware digits; 86 ('V') in a digit place is no digit
VersionResponses ==
  {<<86, 50, a, b>> : a \in {49, 50}, b \in {49, 50}}
    \cup {<<0, 49, 50, 50>>, <<86, 50, 50, 86>>}
Report3s == {<<0, 1, 2>>, <<9, 1, 2>>, <<0, 2, 1>>, <<255, 255, 255>>, <<7, 16, 171>>}
Flags == {FlagLower, FlagUpper, 70, 255}
SignalBytes == {1, Sentinel}
\* a write of n bytes returns n, or one less
WriteResults(n) == {n, n - 1}

---------------------------------------------------------------------------
(* Values. *)

NoExc == [type |-> "none", arg |-> 0]
Exc(t, a) == [type |-> t, arg |-> a]
\* an exception raised by the channel itself, told apart by the call that raised it
ChannelError == Exc("ChannelError", Len(log) + 1)

Min(a, b) == IF a < b THEN a ELSE b

\* a channel call: k is "w", "r" or "flush"; tag names the call site; d is the
\* bytes written or read; n is the count write returned (-1: the call raised)
Ev(k, tag, d, n) == [k |-> k, tag |-> tag, d |-> d, n |-> n]

\* binascii.b2a_hex: two hex digits per byte, high digit first
RECURSIVE B2aHex(_)
B2aHex(bytes) ==
  IF bytes = <<>> THEN <<>>
  ELSE <<Head(bytes) \div 16, Head(bytes) % 16>> \o B2aHex(Tail(bytes))

\* int(text, 16)
RECURSIVE IntBase16(_)
IntBase16(digits) ==
  IF digits = <<>> THEN 0
  ELSE 16 * IntBase16(SubSeq(digits, 1, Len(digits) - 1)) + digits[Len(digits)]

\* int(text) of ASCII decimal digits; -1 stands for the ValueError int() raises
IsDigit(b) == b >= 48 /\ b <= 57
RECURSIVE IntBase10(_)
IntBase10(bytes) ==
  IF bytes = <<>> THEN 0
  ELSE 10 * IntBase10(SubSeq(bytes, 1, Len(bytes) - 1)) + (bytes[Len(bytes)] - 48)
ParseInt(bytes) ==
  IF \A i \in 1..Len(bytes) : IsDigit(bytes[i]) THEN IntBase10(bytes) ELSE -1

---------------------------------------------------------------------------
(* The method bodies, as the steps they perform. *)

WL(c, check, tag) == [i |-> "writeList", code |-> c, check |-> check, tag |-> tag]
W(d, tag) == [i |-> "write", d |-> d, tag |-> tag]
St(name) == [i |-> name]

\* Reset without line 183
ResetNoClear == <<WL(Zeros, FALSE, "reset")>>

Reset == <<WL(Zeros, FALSE, "reset"), St("resetDone")>>

FirmwareRevision == Reset \o <<W(<<ChV>>, "v"), St("readVersion")>>

SetIRMode == Reset \o <<W(<<ChI, ChR>>, "IR")>>

SetSamplingMode == Reset \o <<W(<<ChS>>, "S"), St("readProtocol")>>

\* SetTransmit with no handshake byte read after 0x03
SetTransmitNoHandshake ==
  <<WL(<<CmdHandshake>>, FALSE, "0x26"), WL(<<CmdNotify>>, FALSE, "0x25"),
    WL(<<CmdTransmit>>, FALSE, "0x03"), St("setTransmitDone")>>

SetTransmit ==
  <<WL(<<CmdHandshake>>, FALSE, "0x26"), WL(<<CmdNotify>>, FALSE, "0x25"),
    WL(<<CmdTransmit>>, TRUE, "0x03"), St("setTransmitDone")>>

InitBody ==
  FirmwareRevision \o FirmwareRevision \o <<St("initCheck")>>
    \o SetSamplingMode \o <<St("initDone")>>

\* ReceiveBody without the _setSamplingMode() of line 156
ReceiveBodyNoResample == <<St("receiveRead")>>

ReceiveBody == SetSamplingMode \o <<St("receiveRead")>>

\* TransmitBody without the return to sampling mode of line 221
TransmitBodyNoResample(c) ==
  SetTransmit \o <<WL(c, TRUE, "data"), St("readReport3"), St("readFlag"), St("endtry")>>

\* the try block, the end of the try statement, and what follows it
TransmitBody(c) ==
  SetTransmit \o <<WL(c, TRUE, "data"), St("readReport3"), St("readFlag"), St("endtry")>>
    \o SetSamplingMode

\* Handler without the _setSamplingMode() of line 217
HandlerNoResample == Reset \o <<St("reraise")>>

\* Handler without the reset() of line 216
HandlerNoReset == SetSamplingMode \o <<St("reraise")>>

\* the except clause
Handler == Reset \o SetSamplingMode \o <<St("reraise")>>

InTry(s) == \E k \in 1..Len(s) : s[k].i = "endtry"

---------------------------------------------------------------------------
(* Control. *)

\* continue with the steps `rest`; leaving the try block, running off the end of
\* the body (return) and the bare raise of the except clause are not steps
Goto(rest) ==
  LET r == IF rest # <<>> /\ Head(rest).i = "endtry" THEN Tail(rest) ELSE rest IN
  IF r = <<>>
    THEN stk' = <<>> /\ pc' = "done" /\ outcome' = NoExc /\ caught' = caught
    ELSE IF Head(r).i = "reraise"
      THEN stk' = <<>> /\ pc' = "done" /\ outcome' = caught /\ caught' = caught
      ELSE stk' = r /\ pc' = "run" /\ outcome' = outcome /\ caught' = caught

\* exception e is raised by the current step
Raise(e) ==
  IF InTry(stk)
    THEN stk' = Handler /\ pc' = "run" /\ outcome' = outcome /\ caught' = e
    ELSE stk' = <<>> /\ pc' = "done" /\ outcome' = e /\ caught' = caught

ModeTags == {"reset", "S", "IR", "0x03"}
\* the channel's side of a write of d that returned n
Accepted(tag, d, n) == IF tag \in ModeTags /\ n = Len(d) THEN tag ELSE lastModeCmd

Running(name) == pc = "run" /\ stk # <<>> /\ Head(stk).i = name

fields == <<transmitMode, handshake, byteCount, complete, protocolVersion>>
locals == <<code, code0, irCode, readCount, vers>>
wlvars == <<idx, bytesWritten, hsPending>>
frame == <<constructed, op, pre, kept, again>>

---------------------------------------------------------------------------
Init ==
  /\ pc = "idle" /\ constructed = FALSE /\ op = "none" /\ stk = <<>>
  /\ transmitMode = FALSE /\ handshake = None /\ byteCount = None /\ complete = None
  /\ protocolVersion = <<>>
  /\ code = <<>> /\ code0 = <<>> /\ irCode = <<>> /\ readCount = 0
  /\ idx = 0 /\ bytesWritten = 0 /\ hsPending = FALSE
  /\ vers = <<>> /\ caught = NoExc /\ outcome = NoExc
  /\ log = <<>> /\ lastModeCmd = "none"
  /\ pre = <<>>
  /\ kept = <<>> /\ again = FALSE


---------------------------------------------------------------------------
(* The bytes the channel was given. *)

RECURSIVE Concat(_)
Concat(ss) == IF ss = <<>> THEN <<>> ELSE Head(ss) \o Concat(Tail(ss))

IsPrefix(a, b) == Len(a) <= Len(b) /\ a = SubSeq(b, 1, Len(a))

\* the positions of the log holding a call from the site `tag`
At(tag) == {p \in 1..Len(log) : log[p].tag = tag}

\* the writes of transmit's data, in order
IsDataWrite(e) == e.tag = "data"
DataWrites == SelectSeq(log, IsDataWrite)
DataWritten == Concat([j \in 1..Len(DataWrites) |-> DataWrites[j].d])

---------------------------------------------------------------------------
(* Calls of the public operations. *)

ClearedLocals ==
  /\ code' = <<>> /\ code0' = <<>> /\ irCode' = <<>> /\ readCount' = 0
  /\ vers' = <<>> /\ caught' = NoExc /\ outcome' = NoExc

\* a call of a method whose body is `body`, on the existing object
Call(name, body) ==
  /\ pc = "idle" /\ constructed
  /\ op' = name /\ stk' = body /\ pc' = "run"
  /\ pre' = fields /\ log' = <<>>
  /\ kept' = <<>> /\ again' = FALSE
  /\ ClearedLocals
  /\ UNCHANGED <<constructed, fields, wlvars, lastModeCmd>>

\* IrToy(serialDevice): __init__ up to and including toy.flushOutput().
\* self.transmitMode does not exist until the first reset() assigns it, and no
\* code reads it; FALSE stands for the missing attribute.
Construct ==
  /\ pc = "idle" /\ ~constructed
  /\ op' = "init" /\ stk' = InitBody /\ pc' = "run"
  /\ handshake' = None /\ byteCount' = None /\ complete' = None
  /\ transmitMode' = FALSE /\ protocolVersion' = <<>>
  /\ pre' = <<>> /\ log' = <<Ev("flush", "flush", <<>>, 0)>>
  /\ kept' = <<>> /\ again' = FALSE
  /\ ClearedLocals
  /\ UNCHANGED <<constructed, wlvars, lastModeCmd>>

CallFirmwareRevision == Call("firmware_revision", FirmwareRevision)

CallReset == Call("reset", Reset)

CallSamplingMode == Call("enterSamplingMode", SetSamplingMode)

CallIRMode == Call("IRMode", SetIRMode)

CallReceive == Call("receive", ReceiveBody)

\* code[-2:] != [0xff, 0xff]
EndsInSentinel(c) ==
  Len(c) >= 2 /\ c[Len(c) - 1] = Sentinel /\ c[Len(c)] = Sentinel

\* WithSentinel appending whatever the list ends in
WithSentinelAlways(c) == c \o <<Sentinel, Sentinel>>

\* the list after lines 198-200
WithSentinel(c) == IF EndsInSentinel(c) THEN c ELSE c \o <<Sentinel, Sentinel>>

\* ListAfter with the sentinel appended to a copy
ListAfterCopy(c) == c

\* the caller's list object after code.extend(...) of line 200, which acts in place
ListAfter(c) == WithSentinel(c)

\* Invalid without the parity check of line 195
InvalidNoOddCheck(c) == IF Len(c) < 2 THEN "short" ELSE ""

\* the check of lines 192-196: the ValueError's text, or "" for a valid list
Invalid(c) ==
  IF Len(c) < 2 THEN "short" ELSE IF Len(c) % 2 # 0 THEN "odd" ELSE ""

\* lists over CodeBytes, and lists that fill 1..MaxChunks chunks
CodeBytes == {1, Sentinel}
LongBody(n) == [i \in 1..n |-> (i % 7) + 1]
ShortCodes == UNION {[1..n -> CodeBytes] : n \in 0..MaxShortLen}
LongCodes ==
  {LongBody(maxWriteSize * k - 2) : k \in 1..MaxChunks}
    \cup {LongBody(maxWriteSize * k + 2) : k \in 1..MaxChunks}
    \cup {LongBody(maxWriteSize * k - 2) \o <<Sentinel, Sentinel>> : k \in 2..MaxChunks}
Codes == ShortCodes \cup LongCodes

\* the list object of the transmit just ended, if the caller still holds one
KeptList == IF kept = <<>> THEN {} ELSE {kept[2]}

\* transmit(c): validation, the sentinel append, and entry into the try block;
\* c is a new list, or the list object the transmit before was given
CallTransmit ==
  /\ pc = "idle" /\ constructed
  /\ \E same \in BOOLEAN : \E c \in (IF same THEN KeptList ELSE Codes) :
       /\ again' = same /\ kept' = IF same THEN kept ELSE <<>>
       /\ code0' = c
       /\ IF Invalid(c) # ""
            THEN /\ code' = c /\ stk' = <<>> /\ pc' = "done"
                 /\ outcome' = Exc("ValueError", 0)
            ELSE /\ code' = ListAfter(c)
                 /\ stk' = TransmitBody(WithSentinel(c)) /\ pc' = "run"
                 /\ outcome' = NoExc
  /\ op' = "transmit" /\ pre' = fields /\ log' = <<>>
  /\ irCode' = <<>> /\ readCount' = 0 /\ vers' = <<>> /\ caught' = NoExc
  /\ UNCHANGED <<constructed, fields, wlvars, lastModeCmd>>

\* the call has ended and the caller goes on, holding the list object k
ReturnWith(k) ==
  /\ pc = "done"
  /\ pc' = "idle" /\ op' = "none" /\ stk' = <<>>
  /\ constructed' = IF op = "init" THEN outcome = NoExc ELSE constructed
  /\ pre' = <<>> /\ log' = <<>>
  /\ kept' = k /\ again' = FALSE
  /\ ClearedLocals
  /\ UNCHANGED <<fields, wlvars, lastModeCmd>>

\* the caller lets go of whatever list it passed
Return == ReturnWith(<<>>)

\* after a first transmit of a valid list that did not end in the sentinel, the
\* caller holds on to the list object, to pass it to transmit once more
ReturnKeep ==
  /\ op = "transmit" /\ ~again /\ Invalid(code0) = "" /\ ~EndsInSentinel(code0)
  /\ ReturnWith(<<code0, code, DataWritten>>)

---------------------------------------------------------------------------
(* _writeList *)

\* Chunk with the slice one byte short
ChunkShort(c, i) == SubSeq(c, i + 1, Min(i + maxWriteSize - 1, Len(c)))

\* byteCode[idx:idx+maxWriteSize]
Chunk(c, i) == SubSeq(c, i + 1, Min(i + maxWriteSize, Len(c)))

\* WriteListNext with the count checked inside the loop, after every chunk
WriteListNextEager(written) ==
  LET c == Head(stk).code IN
  IF written # Min(idx + maxWriteSize, Len(c))
    THEN idx' = 0 /\ bytesWritten' = 0 /\ Raise(Exc("IOError", Len(c)))
    ELSE IF idx + maxWriteSize < Len(c)
      THEN /\ idx' = idx + maxWriteSize /\ bytesWritten' = written
           /\ UNCHANGED <<stk, pc, outcome, caught>>
      ELSE idx' = 0 /\ bytesWritten' = 0 /\ Goto(Tail(stk))

\* the end of one pass of the for loop, with `written` bytes written so far:
\* the next pass, or the check after the loop
WriteListNext(written) ==
  LET c == Head(stk).code IN
  IF idx + maxWriteSize < Len(c)
    THEN /\ idx' = idx + maxWriteSize /\ bytesWritten' = written
         /\ UNCHANGED <<stk, pc, outcome, caught>>
    ELSE /\ idx' = 0 /\ bytesWritten' = 0
         /\ IF written # Len(c) THEN Raise(Exc("IOError", Len(c)))
                                ELSE Goto(Tail(stk))

\* self.toy.write(byteCode[idx:idx+maxWriteSize]); bytesWritten += segmentWritten
WriteListWrite ==
  /\ Running("writeList") /\ ~hsPending
  /\ LET h == Head(stk)
         d == Chunk(h.code, idx)
     IN \/ \E n \in WriteResults(Len(d)) :
             /\ log' = Append(log, Ev("w", h.tag, d, n))
             /\ lastModeCmd' = Accepted(h.tag, d, n)
             /\ IF h.check
                  THEN /\ hsPending' = TRUE /\ bytesWritten' = bytesWritten + n
                       /\ UNCHANGED <<idx, stk, pc, outcome, caught>>
                  ELSE /\ hsPending' = FALSE /\ WriteListNext(bytesWritten + n)
        \/ /\ log' = Append(log, Ev("w", h.tag, d, -1))
           /\ Raise(ChannelError)
           /\ idx' = 0 /\ bytesWritten' = 0
           /\ UNCHANGED <<hsPending, lastModeCmd>>
  /\ UNCHANGED <<frame, fields, locals>>

\* self.handshake = ord(self.toy.read(1))
WriteListHandshake ==
  /\ Running("writeList") /\ hsPending
  /\ hsPending' = FALSE
  /\ \/ \E b \in HandshakeBytes :
          /\ log' = Append(log, Ev("r", "handshake", <<b>>, 1))
          /\ handshake' = b
          /\ WriteListNext(bytesWritten)
     \/ /\ log' = Append(log, Ev("r", "handshake", <<>>, -1))
        /\ Raise(ChannelError)
        /\ idx' = 0 /\ bytesWritten' = 0
        /\ UNCHANGED handshake
  /\ UNCHANGED <<frame, transmitMode, byteCount, complete, protocolVersion, locals,
                 lastModeCmd>>

---------------------------------------------------------------------------
(* The other steps. *)

\* reset(), after _writeList([0x00]*5): self.transmitMode = False
ResetDone ==
  /\ Running("resetDone")
  /\ transmitMode' = FALSE
  /\ Goto(Tail(stk))
  /\ UNCHANGED <<frame, handshake, byteCount, complete, protocolVersion, locals,
                 wlvars, log, lastModeCmd>>

\* _setTransmit(), after the three _writeList calls: self.transmitMode = True
SetTransmitDone ==
  /\ Running("setTransmitDone")
  /\ transmitMode' = TRUE
  /\ Goto(Tail(stk))
  /\ UNCHANGED <<frame, handshake, byteCount, complete, protocolVersion, locals,
                 wlvars, log, lastModeCmd>>

\* self.toy.write(b'v'), self.toy.write(b'S'), self.toy.write(b'IR'): the count
\* write returns is dropped
WriteCmd ==
  /\ Running("write")
  /\ LET h == Head(stk) IN
       \/ \E n \in WriteResults(Len(h.d)) :
            /\ log' = Append(log, Ev("w", h.tag, h.d, n))
            /\ lastModeCmd' = Accepted(h.tag, h.d, n)
            /\ Goto(Tail(stk))
       \/ /\ log' = Append(log, Ev("w", h.tag, h.d, -1))
          /\ Raise(ChannelError)
          /\ UNCHANGED lastModeCmd
  /\ UNCHANGED <<frame, fields, locals, wlvars>>

\* int(versionString[1:2]), int(versionString[2:4])
HardwareVersion(v) == ParseInt(SubSeq(v, 2, 2))
FirmwareVersion(v) == ParseInt(SubSeq(v, 3, 4))

\* firmware_revision(): versionString = self.toy.read(4) and the two int()s
ReadVersion ==
  /\ Running("readVersion")
  /\ \/ \E v \in VersionResponses :
          /\ log' = Append(log, Ev("r", "version", v, 4))
          /\ IF HardwareVersion(v) < 0 \/ FirmwareVersion(v) < 0
               THEN Raise(Exc("ValueError", 0)) /\ UNCHANGED vers
               ELSE /\ vers' = Append(vers, <<HardwareVersion(v), FirmwareVersion(v)>>)
                    /\ Goto(Tail(stk))
     \/ /\ log' = Append(log, Ev("r", "version", <<>>, -1))
        /\ Raise(ChannelError)
        /\ UNCHANGED vers
  /\ UNCHANGED <<frame, fields, code, code0, irCode, readCount, wlvars, lastModeCmd>>

\* TooOld refusing the required version itself
TooOldOffByOne(fw) == fw <= requiredVersion

\* the comparison __init__ makes
TooOld(fw) == fw < requiredVersion

\* __init__: hardware, revision = (first call's value); the check reads the second
InitCheck ==
  /\ Running("initCheck")
  /\ IF TooOld(vers[2][2])
       THEN Raise(Exc("FirmwareVersionError", vers[1][2]))
       ELSE Goto(Tail(stk))
  /\ UNCHANGED <<frame, fields, locals, wlvars, log, lastModeCmd>>

\* __init__'s last line: self.transmitMode = False
InitDone ==
  /\ Running("initDone")
  /\ transmitMode' = FALSE
  /\ Goto(Tail(stk))
  /\ UNCHANGED <<frame, handshake, byteCount, complete, protocolVersion, locals,
                 wlvars, log, lastModeCmd>>

\* _setSamplingMode(): self.protocolVersion = self.toy.read(3)
ReadProtocol ==
  /\ Running("readProtocol")
  /\ \/ \E v \in ProtoResponses :
          /\ log' = Append(log, Ev("r", "protocol", v, 3))
          /\ protocolVersion' = v
          /\ Goto(Tail(stk))
     \/ /\ log' = Append(log, Ev("r", "protocol", <<>>, -1))
        /\ Raise(ChannelError)
        /\ UNCHANGED protocolVersion
  /\ UNCHANGED <<frame, transmitMode, handshake, byteCount, complete, locals, wlvars,
                 lastModeCmd>>

\* Terminated counting the bytes read from 1
TerminatedEarly(count, ir) ==
  count >= 1 /\ ir[Len(ir)] = Sentinel /\ ir[Len(ir) - 1] = Sentinel

\* Terminated with a cap on the number of bytes read
TerminatedOrLong(count, ir) ==
  \/ count >= 2 /\ ir[Len(ir)] = Sentinel /\ ir[Len(ir) - 1] = Sentinel
  \/ count >= 3

\* the test that ends receive's loop, irCode being the list after the append
Terminated(count, ir) ==
  count >= 2 /\ ir[Len(ir)] = Sentinel /\ ir[Len(ir) - 1] = Sentinel

\* one pass of receive's while loop
ReceiveRead ==
  /\ Running("receiveRead")
  /\ Len(irCode) < MaxRecv
  /\ \/ \E b \in SignalBytes :
          LET intVal == IntBase16(B2aHex(<<b>>))
              ir == Append(irCode, intVal)
          IN /\ log' = Append(log, Ev("r", "signal", <<b>>, 1))
             /\ irCode' = ir
             /\ IF Terminated(readCount, ir)
                  THEN readCount' = readCount /\ Goto(Tail(stk))
                  ELSE readCount' = readCount + 1 /\ UNCHANGED <<stk, pc, outcome, caught>>
     \/ /\ log' = Append(log, Ev("r", "signal", <<>>, -1))
        /\ Raise(ChannelError)
        /\ UNCHANGED <<irCode, readCount>>
  /\ UNCHANGED <<frame, fields, code, code0, vers, wlvars, lastModeCmd>>

\* ReportCount without the [1:] slice
ReportCountWhole(r) == IntBase16(B2aHex(r))

\* int(binascii.b2a_hex(r[1:]), 16) of the three bytes r
ReportCount(r) == IntBase16(B2aHex(Tail(r)))

\* _getTransmitReport(): self.byteCount = ... self.toy.read(3) ...
ReadReport3 ==
  /\ Running("readReport3")
  /\ \/ \E r \in Report3s :
          /\ log' = Append(log, Ev("r", "report3", r, 3))
          /\ byteCount' = ReportCount(r)
          /\ Goto(Tail(stk))
     \/ /\ log' = Append(log, Ev("r", "report3", <<>>, -1))
        /\ Raise(ChannelError)
        /\ UNCHANGED byteCount
  /\ UNCHANGED <<frame, transmitMode, handshake, complete, protocolVersion, locals,
                 wlvars, lastModeCmd>>

\* self.complete not in [b'c', b'C']
BadFlag(f) == f \notin {FlagLower, FlagUpper}

\* self.complete = self.toy.read(1), and transmit's check of it
ReadFlag ==
  /\ Running("readFlag")
  /\ \/ \E f \in Flags :
          /\ log' = Append(log, Ev("r", "flag", <<f>>, 1))
          /\ complete' = f
          /\ IF BadFlag(f) THEN Raise(Exc("IRTransmitError", f)) ELSE Goto(Tail(stk))
     \/ /\ log' = Append(log, Ev("r", "flag", <<>>, -1))
        /\ Raise(ChannelError)
        /\ UNCHANGED complete
  /\ UNCHANGED <<frame, transmitMode, handshake, byteCount, protocolVersion, locals,
                 wlvars, lastModeCmd>>

---------------------------------------------------------------------------
Next ==
  \/ Construct
  \/ CallFirmwareRevision
  \/ CallReset
  \/ CallSamplingMode
  \/ CallIRMode
  \/ CallReceive
  \/ CallTransmit
  \/ Return
  \/ WriteListWrite
  \/ WriteListHandshake
  \/ ResetDone
  \/ SetTransmitDone
  \/ WriteCmd
  \/ ReadVersion
  \/ InitCheck
  \/ InitDone
  \/ ReadProtocol
  \/ ReceiveRead
  \/ ReadReport3
  \/ ReadFlag

Spec == Init /\ [][Next]_vars

\* callers that pass a list object to transmit a second time
NextReuse == Next \/ ReturnKeep

ReuseSpec == Init /\ [][NextReuse]_vars

\* toy.read(1) blocks until the channel answers: a receive() in its loop is
\* never left waiting for ever on a read the channel can answer
FairSpec == Spec /\ WF_vars(ReceiveRead)


---------------------------------------------------------------------------
(* Reading the channel's side of the current call. *)

\* the call at position p went well: a write was accepted in full, a read answered
Clean(p) == IF log[p].k = "w" THEN log[p].n = Len(log[p].d) ELSE log[p].n >= 0
LogClean == \A p \in 1..Len(log) : Clean(p)

\* the completion flags the channel reported during the call
FlagsRead == {log[p].d[1] : p \in {q \in At("flag") : log[q].n >= 0}}
GoodFlags == {FlagLower, FlagUpper}

Done(name) == pc = "done" /\ op = name
ValidLen(c) == Len(c) >= 2 /\ Len(c) % 2 = 0

---------------------------------------------------------------------------
(* C1: a transmit of a list of even length >= 2, on a channel that accepts   *)
(* every write in full, answers every read and reports 'c' or 'C', raises   *)
(* nothing, and ends with complete in {'c','C'}, transmitMode false and 'S' *)
(* the last mode command the channel saw.                                   *)
C1_TransmitSucceeds ==
  (op = "transmit" /\ ValidLen(code0) /\ LogClean /\ FlagsRead \subseteq GoodFlags)
    => /\ caught = NoExc
       /\ pc = "done" =>
            /\ outcome = NoExc
            /\ complete \in GoodFlags
            /\ transmitMode = FALSE
            /\ lastModeCmd = "S"

C1_Witness ==
  /\ Done("transmit") /\ outcome = NoExc /\ LogClean
  /\ code0 = <<1, 1>> /\ complete = FlagUpper

---------------------------------------------------------------------------
FlagPos == CHOOSE p \in At("flag") : TRUE
AfterFlag == SubSeq(log, FlagPos + 1, Len(log))
RecoveryServed ==
  /\ Len(AfterFlag) = 4
  /\ \A p \in FlagPos + 1..Len(log) : Clean(p)

(* C2: when the channel reports a completion flag other than 'c' and 'C',   *)
(* transmit raises IRTransmitError inside its try block; the channel then   *)
(* sees, after the code bytes and the report, the five zero bytes of        *)
(* reset(), those of _setSamplingMode()'s own reset(), 'S' and the read of  *)
(* the 3 protocol bytes, and only then does IRTransmitError reach the       *)
(* caller; it does reach the caller when the channel serves those calls.    *)
C2_BadFlagRecovers ==
  (op = "transmit" /\ FlagsRead # {} /\ ~(FlagsRead \subseteq GoodFlags))
    => /\ \E f \in FlagsRead : caught = Exc("IRTransmitError", f)
       /\ pc = "run" => outcome = NoExc
       /\ (pc = "done" /\ outcome.type = "IRTransmitError") =>
            /\ outcome = caught
            /\ [j \in 1..Len(AfterFlag) |-> AfterFlag[j].tag]
                 = <<"reset", "reset", "S", "protocol">>
            /\ AfterFlag[1].d = Zeros /\ AfterFlag[2].d = Zeros
            /\ AfterFlag[3].d = <<ChS>>
            /\ \A p \in At("data") : p < FlagPos
            /\ DataWritten = code
       /\ (pc = "done" /\ RecoveryServed) => outcome.type = "IRTransmitError"

C2_Witness ==
  /\ Done("transmit") /\ outcome = Exc("IRTransmitError", 70)
  /\ Len(AfterFlag) = 4 /\ AfterFlag[3].d = <<ChS>>

---------------------------------------------------------------------------
(* C3: whatever fails inside transmit's try block and whatever the channel  *)
(* does during the recovery, the exception transmit raises to the caller is *)
(* the one the except clause caught.                                        *)
C3_OriginalErrorReachesCaller ==
  (Done("transmit") /\ caught # NoExc) => outcome = caught

---------------------------------------------------------------------------
(* C4: transmit of a list shorter than 2 or of odd length raises ValueError *)
(* with no channel call made, the driver's fields as they were and the list *)
(* as it was.                                                               *)
C4_InvalidRejected ==
  (op = "transmit" /\ (Len(code0) < 2 \/ Len(code0) % 2 = 1))
    => /\ pc = "done"
       /\ outcome.type = "ValueError"
       /\ log = <<>>
       /\ fields = pre
       /\ code = code0

C4_Witness == Done("transmit") /\ Len(code0) = 3 /\ outcome.type = "ValueError"

---------------------------------------------------------------------------
C5_Expected ==
  IF code0[Len(code0) - 1] = 255 /\ code0[Len(code0)] = 255
    THEN code0
    ELSE code0 \o <<255, 255>>

(* C5: the data bytes a valid transmit writes are the list followed by      *)
(* 255,255 when the list does not end in 255,255, and the list itself when  *)
(* it does: what has been written so far is always a prefix of that, and    *)
(* all of it once the report is being read.                                 *)
C5_SentinelAppended ==
  (op = "transmit" /\ ValidLen(code0))
    => /\ IsPrefix(DataWritten, C5_Expected)
       /\ At("data") # {} =>
            [j \in 1..4 |-> log[j].tag] = <<"0x26", "0x25", "0x03", "handshake">>
       /\ (At("report3") # {} \/ (pc = "done" /\ outcome = NoExc))
            => DataWritten = C5_Expected
       /\ code = C5_Expected

C5_Witness ==
  /\ Done("transmit") /\ outcome = NoExc
  /\ code0 = <<1, 255>> /\ DataWritten = <<1, 255, 255, 255>>

---------------------------------------------------------------------------
(* C6: every list receive() returns has even length >= 2 and ends in        *)
(* 255,255, so that transmit() takes it as it is.                           *)
C6_ReceiveFeedsTransmit ==
  (Done("receive") /\ outcome = NoExc)
    => /\ Len(irCode) >= 2
       /\ Len(irCode) % 2 = 0
       /\ irCode[Len(irCode) - 1] = 255 /\ irCode[Len(irCode)] = 255

---------------------------------------------------------------------------
IsSignalRead(e) == e.tag = "signal" /\ e.n >= 0
SignalReads == SelectSeq(log, IsSignalRead)
SignalStream == [j \in 1..Len(SignalReads) |-> SignalReads[j].d[1]]
EndsFrame(s, i) == i >= 3 /\ s[i] = 255 /\ s[i - 1] = 255

(* C7: receive() returns exactly the bytes it read, which end at the first  *)
(* position i >= 3 (counting from 1) whose byte and the byte before it are  *)
(* both 255; while it is still reading, no such position has been read.     *)
C7_ReceiveStopsAtFirstTerminator ==
  op = "receive"
    => /\ irCode = SignalStream
       /\ \A i \in 1..Len(irCode) - 1 : ~EndsFrame(irCode, i)
       /\ (pc = "done" /\ outcome = NoExc) => EndsFrame(irCode, Len(irCode))
       /\ (pc = "run" /\ irCode # <<>>) => ~EndsFrame(irCode, Len(irCode))

C7_Witness ==
  /\ Done("receive") /\ outcome = NoExc
  /\ irCode = <<255, 255, 1, 255, 255>>

---------------------------------------------------------------------------
IsVersionRead(e) == e.tag = "version" /\ e.n >= 0
VersionReads == SelectSeq(log, IsVersionRead)
Digits(v) == \A i \in 2..4 : v[i] \in 48..57
Fw(v) == 10 * (v[3] - 48) + (v[4] - 48)
VersionsParsed ==
  /\ Len(VersionReads) = 2
  /\ Digits(VersionReads[1].d) /\ Digits(VersionReads[2].d)

(* C8: construction raises FirmwareVersionError exactly when the firmware   *)
(* digits of the version response its check reads (the second of the two    *)
(* queries __init__ makes) are below 22; with 22 or more, and the channel   *)
(* serving every call, it succeeds with transmitMode false and 'S' the last *)
(* mode command.                                                            *)
C8_VersionGate ==
  Done("init")
    => /\ outcome.type = "FirmwareVersionError"
            <=> (VersionsParsed /\ Fw(VersionReads[2].d) < 22)
       /\ outcome.type = "FirmwareVersionError"
            => (At("S") = {} /\ outcome.arg = Fw(VersionReads[1].d))
       /\ (VersionsParsed /\ Fw(VersionReads[2].d) >= 22 /\ LogClean)
            => (outcome = NoExc /\ transmitMode = FALSE /\ lastModeCmd = "S")

C8_Witness ==
  /\ Done("init") /\ outcome = NoExc /\ VersionsParsed
  /\ Fw(VersionReads[1].d) = 22 /\ Fw(VersionReads[2].d) = 22

---------------------------------------------------------------------------
DataPos == {p \in At("data") : TRUE}
C9_Chunks == (Len(code) + 31) \div 32

(* C9: transmit writes its n data bytes in order in chunks of 32, the last  *)
(* one of what is left: the j-th data write holds bytes 32(j-1)+1 .. 32j of *)
(* the data, each data write is followed at once by the read of one         *)
(* handshake byte and that by the next data write, and once the report is   *)
(* read there have been ceil(n/32) of them.                                 *)
C9_ChunkedWrite ==
  (op = "transmit" /\ ValidLen(code0))
    => /\ \A j \in 1..Len(DataWrites) :
            /\ 32 * (j - 1) < Len(code)
            /\ DataWrites[j].d
                 = SubSeq(code, 32 * (j - 1) + 1, Min(32 * j, Len(code)))
       /\ \A p \in DataPos :
            /\ (log[p].n >= 0 /\ p < Len(log)) =>
                  (log[p + 1].tag = "handshake" /\ log[p + 1].k = "r")
            /\ (log[p].n >= 0 /\ p + 2 <= Len(log) /\ log[p + 1].n >= 0
                  /\ Cardinality({q \in DataPos : q <= p}) < C9_Chunks)
                  => log[p + 2].tag = "data"
            /\ \A q \in DataPos : q < p => q + 2 <= p
       /\ \A p \in At("handshake") : log[p - 1].tag \in {"data", "0x03"}
       /\ (At("report3") # {} \/ (pc = "done" /\ outcome = NoExc))
            => /\ Len(DataWrites) = C9_Chunks
               /\ Cardinality({p \in At("handshake") : log[p - 1].tag = "data"})
                    = C9_Chunks

C9_Witness ==
  /\ Done("transmit") /\ outcome = NoExc /\ Len(code) = 100
  /\ [j \in 1..Len(DataWrites) |-> Len(DataWrites[j].d)] = <<32, 32, 32, 4>>
  /\ Cardinality(At("handshake")) = 5

---------------------------------------------------------------------------
ModeWrites == {p \in 1..Len(log) : log[p].tag \in ModeTags}
LastModeSent ==
  IF ModeWrites = {} THEN "none"
  ELSE log[CHOOSE p \in ModeWrites : \A q \in ModeWrites : q <= p].tag
EndsWith(cmd) == LastModeSent = cmd /\ (LogClean => lastModeCmd = cmd)

---------------------------------------------------------------------------
(* C11: at every operation boundary the driver's mode agrees with the       *)
(* device's: transmitMode is true exactly when the last mode command the    *)
(* channel accepted is 0x03, whatever the channel did before.               *)
C11_ModeAgreement ==
  ((pc = "done" /\ op # "init") \/ (pc = "idle" /\ constructed))
    => (transmitMode <=> lastModeCmd = "0x03")

---------------------------------------------------------------------------
\* the channel calls of the except clause: the try block makes none from these sites
RecoveryTags == {"reset", "S", "protocol"}
RecoveryPos == {p \in 1..Len(log) : log[p].tag \in RecoveryTags}
IsRecovery(e) == e.tag \in RecoveryTags
Recovery == SelectSeq(log, IsRecovery)
RecoveryTagsSeen == [j \in 1..Len(Recovery) |-> Recovery[j].tag]
RecoveryClean == \A p \in RecoveryPos : Clean(p)

(* C12: whatever raises inside transmit's try block, the channel calls that *)
(* follow are those of reset() and _setSamplingMode(), in order: five zero  *)
(* bytes, five zero bytes, 'S', read of 3 bytes; when the channel serves    *)
(* them all four are made before the call ends, the caller gets the         *)
(* exception that was caught, and transmitMode is false with 'S' the last   *)
(* mode command.                                                            *)
C12_RecoveryRuns ==
  (op = "transmit" /\ caught # NoExc)
    => /\ IsPrefix(RecoveryTagsSeen, <<"reset", "reset", "S", "protocol">>)
       /\ \A p \in RecoveryPos : \A q \in p..Len(log) : q \in RecoveryPos
       /\ \A p \in RecoveryPos :
            /\ log[p].tag = "reset" => (log[p].k = "w" /\ log[p].d = <<0, 0, 0, 0, 0>>)
            /\ log[p].tag = "S" => (log[p].k = "w" /\ log[p].d = <<83>>)
            /\ log[p].tag = "protocol" => (log[p].k = "r" /\ log[p].n \in {3, -1})
       /\ (pc = "done" /\ RecoveryClean) =>
            /\ Len(Recovery) = 4
            /\ outcome = caught
            /\ transmitMode = FALSE
            /\ lastModeCmd = "S"
       /\ (pc = "done" /\ outcome = caught) => Len(Recovery) = 4

C12_Witness ==
  /\ Done("transmit") /\ caught.type = "ChannelError" /\ caught.arg = 4
  /\ outcome = caught /\ Len(Recovery) = 4 /\ RecoveryClean

---------------------------------------------------------------------------
\* the data writes that returned, and the handshake bytes read after data writes
DataReturned == \A j \in 1..Len(DataWrites) : DataWrites[j].n >= 0
RECURSIVE SumCounts(_)
SumCounts(ws) == IF ws = <<>> THEN 0 ELSE Head(ws).n + SumCounts(Tail(ws))
DataHandshakes ==
  {p \in At("handshake") : log[p - 1].tag = "data" /\ log[p].n >= 0}
DataPhaseOver ==
  /\ Len(DataWrites) = (Len(code) + 31) \div 32
  /\ DataReturned
  /\ Cardinality(DataHandshakes) = Len(DataWrites)

(* C13: when the counts write returned for the data chunks do not add up to *)
(* the data length, transmit raises IOError inside its try block; it does   *)
(* so only once every chunk has been written and its handshake byte read,   *)
(* and the report is never read.                                            *)
C13_MismatchAfterAllChunks ==
  (op = "transmit" /\ ValidLen(code0))
    => /\ (DataPhaseOver /\ SumCounts(DataWrites) # Len(code))
            => (caught = Exc("IOError", Len(code)) /\ At("report3") = {} /\ At("flag") = {})
       /\ caught = Exc("IOError", Len(code))
            => (DataPhaseOver /\ SumCounts(DataWrites) # Len(code))
       /\ (DataPhaseOver /\ SumCounts(DataWrites) = Len(code))
            => caught.type # "IOError"
       /\ (DataReturned /\ SumCounts(DataWrites) # Len(DataWritten))
            => (At("report3") = {} /\ At("flag") = {})

C13_Witness ==
  /\ Done("transmit") /\ caught = Exc("IOError", 100)
  /\ Len(DataWrites) = 4 /\ DataWrites[1].n = 31 /\ DataWrites[4].n = 4
  /\ Cardinality(DataHandshakes) = 4

---------------------------------------------------------------------------
(* C14: a transmit that passes validation writes 0x26, 0x25 and 0x03, each  *)
(* as a write of one byte and each only if the one before was accepted,     *)
(* reads nothing after 0x26 and 0x25, reads one handshake byte after 0x03,  *)
(* sets transmitMode only after that read, and writes no data before it.    *)
C14_SetupOrder ==
  (op = "transmit" /\ ValidLen(code0))
    => /\ Len(log) >= 1 => (log[1].k = "w" /\ log[1].d = <<38>>)
       /\ (Len(log) >= 2 /\ Clean(1)) => (log[2].k = "w" /\ log[2].d = <<37>>)
       /\ (Len(log) >= 3 /\ Clean(1) /\ Clean(2)) => (log[3].k = "w" /\ log[3].d = <<3>>)
       /\ (Len(log) >= 4 /\ Clean(1) /\ Clean(2) /\ log[3].n >= 0)
            => (log[4].k = "r" /\ log[4].tag = "handshake" /\ log[4].n \in {1, -1})
       /\ Cardinality(At("0x26")) <= 1 /\ Cardinality(At("0x25")) <= 1
       /\ Cardinality(At("0x03")) <= 1
       /\ \A p \in At("data") :
            /\ p >= 5
            /\ \A q \in 1..4 : Clean(q)
       /\ (At("data") # {}) => log[5].tag = "data"
       /\ (transmitMode /\ ~pre[1]) => (Len(log) >= 4 /\ \A q \in 1..4 : Clean(q))
       /\ (At("data") # {} /\ At("reset") = {}) => transmitMode

C14_Witness ==
  /\ op = "transmit" /\ pc = "run" /\ ~pre[1] /\ transmitMode
  /\ Len(log) = 5 /\ log[5].tag = "data" /\ log[4].d = <<62>>

---------------------------------------------------------------------------
(* C15: whatever state the driver was left in, receive() writes the five    *)
(* zero bytes, then 'S', then reads the 3 protocol bytes, and only then     *)
(* reads signal bytes; what it returns holds signal bytes only, and         *)
(* transmitMode is false while the signal is read.                          *)
C15_ReceiveStartsClean ==
  op = "receive"
    => /\ Len(log) >= 1 => (log[1].k = "w" /\ log[1].d = <<0, 0, 0, 0, 0>>)
       /\ (Len(log) >= 2 /\ Clean(1)) => (log[2].k = "w" /\ log[2].d = <<83>>)
       /\ (Len(log) >= 3 /\ Clean(1) /\ log[2].n >= 0)
            => (log[3].k = "r" /\ log[3].tag = "protocol" /\ log[3].n \in {3, -1})
       /\ \A p \in At("signal") :
            /\ p >= 4
            /\ Clean(1) /\ log[2].n >= 0 /\ Clean(3)
            /\ log[p].n \in {1, -1}
       /\ irCode = SignalStream
       /\ At("signal") # {} => (transmitMode = FALSE /\ LastModeSent = "S")

C15_Witness ==
  /\ Done("receive") /\ outcome = NoExc /\ pre[1] = TRUE
  /\ Len(log) = 6 /\ irCode = <<1, 255, 255>>

---------------------------------------------------------------------------
\* the report reads of the call in progress
ReportPos == At("report3")
FlagReadPos == At("flag")

(* C16: the report is read as one read of 3 bytes followed by one read of   *)
(* 1 byte; for the bytes b0, b1, b2 and f the channel answered, byteCount   *)
(* is 256 * b1 + b2 whatever b0 is, and complete is f.                      *)
C16_ReportParsed ==
  op = "transmit"
    => /\ Cardinality(ReportPos) <= 1 /\ Cardinality(FlagReadPos) <= 1
       /\ \A p \in ReportPos :
            /\ log[p].k = "r" /\ log[p].n \in {3, -1}
            /\ log[p].n = 3 =>
                 /\ Len(log[p].d) = 3
                 /\ byteCount = 256 * log[p].d[2] + log[p].d[3]
                 /\ byteCount \in 0..65535
            /\ (log[p].n = 3 /\ Len(log) > p) => log[p + 1].tag = "flag"
            /\ log[p].n = -1 => byteCount = pre[3]
       /\ \A q \in FlagReadPos :
            /\ log[q].k = "r" /\ log[q].n \in {1, -1}
            /\ q - 1 \in ReportPos /\ log[q - 1].n = 3
            /\ log[q].n = 1 => (Len(log[q].d) = 1 /\ complete = log[q].d[1])
            /\ log[q].n = -1 => complete = pre[4]
       /\ (ReportPos = {}) => (byteCount = pre[3] /\ complete = pre[4])

C16_Witness ==
  /\ op = "transmit" /\ FlagReadPos # {}
  /\ \E p \in ReportPos : log[p].d = <<7, 16, 171>> /\ log[p + 1].d = <<255>>
  /\ byteCount = 4267 /\ complete = 255

---------------------------------------------------------------------------
LogTags == [j \in 1..Len(log) |-> log[j].tag]

(* C17: a construction the channel serves makes the flush, one firmware     *)
(* query (five zero bytes, 'v', read of 4) and then, only when the firmware *)
(* is recent enough, one sampling-mode entry (five zero bytes, 'S', read of *)
(* 3), and nothing else.                                                    *)
C17_ConstructionTraffic ==
  (Done("init") /\ LogClean)
    => /\ outcome = NoExc
            => LogTags = <<"flush", "reset", "v", "version", "reset", "S", "protocol">>
       /\ outcome.type = "FirmwareVersionError"
            => LogTags = <<"flush", "reset", "v", "version">>

---------------------------------------------------------------------------
(* C18: reset() called in any driver state makes one channel call, a write  *)
(* of five zero bytes, and reads nothing; it returns with transmitMode      *)
(* false when the channel accepts all five, raises IOError when the channel *)
(* returns a shorter count and passes the channel's exception on when write *)
(* raises, in both leaving transmitMode as it was; no other field changes.  *)
C18_ResetOneWrite ==
  op = "reset"
    => /\ Len(log) <= 1
       /\ Len(log) = 1 => (log[1].k = "w" /\ log[1].d = <<0, 0, 0, 0, 0>>)
       /\ pc = "done" =>
            /\ Len(log) = 1
            /\ log[1].n = 5 => (outcome = NoExc /\ transmitMode = FALSE)
            /\ log[1].n \in 0..4 => (outcome = Exc("IOError", 5) /\ transmitMode = pre[1])
            /\ log[1].n = -1 => (outcome = Exc("ChannelError", 1) /\ transmitMode = pre[1])
       /\ <<handshake, byteCount, complete, protocolVersion>>
            = <<pre[2], pre[3], pre[4], pre[5]>>

C18_Witness ==
  /\ Done("reset") /\ pre[1] = TRUE
  /\ outcome = NoExc /\ transmitMode = FALSE /\ log[1].n = 5

(* C18 as stated: reset() never fails and always leaves transmitMode false. *)
C18_ResetNeverFails ==
  Done("reset") => (outcome = NoExc /\ transmitMode = FALSE)

---------------------------------------------------------------------------
FrameSeen == \E i \in 1..Len(SignalStream) : EndsFrame(SignalStream, i)
Reading == op = "receive" /\ Running("receiveRead")

(* C19: receive() has no timeout and no length limit of its own: it returns *)
(* exactly when the bytes read hold two consecutive 255 ending at index 2   *)
(* or later, it ends otherwise only with the exception of a channel call    *)
(* that failed, and while neither has happened every read is followed by    *)
(* another read, for as many bytes as the channel delivers.                 *)
C19_ReceiveBlocksUntilTerminator ==
  /\ [](op = "receive" => (FrameSeen <=> (pc = "done" /\ outcome = NoExc)))
  /\ [](Done("receive") /\ outcome # NoExc => ~Clean(Len(log)))
  /\ [](Reading => (readCount = Len(irCode) /\ ~FrameSeen))
  /\ \A k \in 0..MaxRecv - 1 :
       (Reading /\ Len(irCode) = k) ~> (pc = "done" \/ (Reading /\ Len(irCode) = k + 1))

C19_Witness ==
  /\ Reading /\ Len(irCode) = MaxRecv
  /\ irCode[1] = 255 /\ irCode[2] = 255 /\ irCode[3] = 1

---------------------------------------------------------------------------
(* C20: a second transmit() of the same list object, first passed valid and *)
(* not ending in 255, 255: the first call appended 255, 255 to the list in  *)
(* place, whether it then failed or not; the second call appends nothing,   *)
(* so the list is 2 longer than at the start, not 4, and the data the       *)
(* second call writes are the bytes the first call wrote or was to write.   *)
C20_SecondCallAppendsNothing ==
  (kept # <<>> =>
     /\ kept[2] = kept[1] \o <<255, 255>>
     /\ IsPrefix(kept[3], kept[2]))
  /\ (again =>
     /\ op = "transmit" /\ kept # <<>>
     /\ code0 = kept[2]
     /\ code = code0
     /\ Len(code) = Len(kept[1]) + 2
     /\ IsPrefix(DataWritten, kept[2])
     /\ (Len(DataWritten) <= Len(kept[3]) => IsPrefix(DataWritten, kept[3]))
     /\ (Len(kept[3]) <= Len(DataWritten) => IsPrefix(kept[3], DataWritten))
     /\ (At("report3") # {} => DataWritten = kept[2])
     /\ (pc = "done" => outcome.type # "ValueError"))

C20_Witness ==
  /\ again /\ Done("transmit") /\ outcome = NoExc
  /\ kept[1] = <<1, 255>> /\ kept[3] = <<>>
  /\ DataWritten = <<1, 255, 255, 255>>

=============================================================================
